---- MODULE Spec2Model ----
(***************************************************************************)
(* Model of the keyphrase crate: the entropy <-> phrase codec              *)
(* (src/src/util.rs, src/src/keyphrase.rs), the hexadecimal rendering of   *)
(* KeyPhrase and Seed (src/src/keyphrase.rs, src/src/seed.rs) and the      *)
(* typed errors (src/src/error.rs).                                        *)
(*                                                                         *)
(* Machine registers wider than TLC's integers (the u64 buffer of BitIter, *)
(* the u32 remainder of BitWriter) are bit vectors: sequences of 0/1, most *)
(* significant bit first, of exactly the register's width, so that bits    *)
(* shifted past either end are lost as they are in the code.               *)
(* Text is a sequence of one-character strings.                            *)
(***************************************************************************)
EXTENDS Integers, Sequences, FiniteSets, TLC

\* ---------------------------------------------------------------- bounds

\* Number of entropy fill patterns the caller draws from.
NumPatterns == 3
\* Longest entropy handed to from_entropy, in bytes.
MaxEntropyLen == 33
\* Largest number of words of a text handed to from_phrase / validate.
MaxWordCount == 25
\* Longest byte sequence fed to a stand-alone BitIter.
MaxIterBytes == 4
\* A BitWriter is pushed into up to this many times: eight pushes bring the
\* offset through every value of 0..7 and back to a whole number of bytes.
MaxPushes == 8

\* ------------------------------------------------------- program constants

\* Bits::SIZE of u8 and of Bits11.
U8_SIZE == 8
BITS11_SIZE == 11
\* Widths of BitIter::buffer (u64) and BitWriter::remainder (u32).
U64_WIDTH == 64
U32_WIDTH == 32
\* BitWriter::with_capacity(264) in phrase_to_entropy.
WRITER_CAPACITY == 264

\* ------------------------------------------------------------ bit vectors

Pow2(n) == 2 ^ n

\* Seq of n zeros.
Zeros(n) == [i \in 1..n |-> 0] \o <<>>

\* A u8 or u16 value n widened to a register of w >= 16 bits (`as u32`,
\* `as u64`): zeros above its 16 bits.
ToBits(n, w) ==
    Zeros(w - 16) \o ([i \in 1..16 |-> (n \div Pow2(16 - i)) % 2] \o <<>>)

\* v << k and v >> k on a register (0 <= k < width): bits leaving the register
\* are dropped, zeros enter.
Shl(v, k) == SubSeq(v, k + 1, Len(v)) \o Zeros(k)
Shr(v, k) == Zeros(k) \o SubSeq(v, 1, Len(v) - k)
BitOr(a, b) == [i \in 1..Len(a) |-> IF a[i] = 1 \/ b[i] = 1 THEN 1 ELSE 0] \o <<>>

RECURSIVE BitsValue(_, _, _)
\* Value of bits i.. of the vector (at most 30 of them), acc the value of the
\* bits before them.
BitsValue(v, i, acc) ==
    IF i > Len(v) THEN acc ELSE BitsValue(v, i + 1, 2 * acc + v[i])

\* `v as u8`, `v as u16`: the low n bits of the register, as a number.
LowBits(v, n) == BitsValue(v, Len(v) - n + 1, 0)

\* ------------------------------------------------- util.rs: BitIter<u8, Bits11>

\* BitIter::new: nothing read, empty buffer.
BitIter_new(source) ==
    [source |-> source, read |-> 0, buffer |-> Zeros(U64_WIDTH), panic |-> FALSE]

RECURSIVE BitIter_fill_through11(_)
\* The loop reading on while `self.read <= Out::SIZE`.
BitIter_fill_through11(it) ==
    IF it.panic \/ it.read > BITS11_SIZE THEN [it |-> it, none |-> FALSE]
    ELSE IF it.source = <<>> THEN [it |-> it, none |-> TRUE]
    ELSE LET bits == ToBits(Head(it.source), U64_WIDTH)
             read == it.read + U8_SIZE
         IN  BitIter_fill_through11([source |-> Tail(it.source),
                                     read   |-> read,
                                     buffer |-> BitOr(it.buffer, Shl(bits, U64_WIDTH - read)),
                                     panic  |-> FALSE])

RECURSIVE BitIter_fill(_)
\* The `while self.read < Out::SIZE` loop of BitIter::next. `none` is the early
\* return of `self.source.next()?` on an exhausted source; what was read so far
\* stays in the iterator. `64 - self.read` below zero is an arithmetic panic.
BitIter_fill(it) ==
    IF it.panic \/ it.read >= BITS11_SIZE THEN [it |-> it, none |-> FALSE]
    ELSE IF it.source = <<>> THEN [it |-> it, none |-> TRUE]
    ELSE LET bits == ToBits(Head(it.source), U64_WIDTH)
             read == it.read + U8_SIZE
         IN  IF read > U64_WIDTH
             THEN [it |-> [it EXCEPT !.source = Tail(@), !.read = read, !.panic = TRUE],
                   none |-> FALSE]
             ELSE BitIter_fill([source |-> Tail(it.source),
                                read   |-> read,
                                buffer |-> BitOr(it.buffer, Shl(bits, U64_WIDTH - read)),
                                panic  |-> FALSE])

\* BitIter::next advancing by the input width after an item, not the output width.
BitIter_next_advance8(it) ==
    LET f == BitIter_fill(it) IN
    IF f.it.panic \/ f.none
    THEN [it |-> f.it, some |-> FALSE, item |-> 0]
    ELSE [it   |-> [f.it EXCEPT !.buffer = Shl(@, U8_SIZE), !.read = @ - U8_SIZE],
          some |-> TRUE,
          item |-> LowBits(Shr(f.it.buffer, U64_WIDTH - BITS11_SIZE), 16)]

\* BitIter::next handing out the bits left in the buffer, zero padded, when the
\* source runs out.
BitIter_next_flushing(it) ==
    LET f == BitIter_fill(it) IN
    IF f.it.panic \/ (f.none /\ f.it.read = 0)
    THEN [it |-> f.it, some |-> FALSE, item |-> 0]
    ELSE [it   |-> [f.it EXCEPT !.buffer = Shl(@, BITS11_SIZE),
                                !.read = IF f.none THEN 0 ELSE @ - BITS11_SIZE],
          some |-> TRUE,
          item |-> LowBits(Shr(f.it.buffer, U64_WIDTH - BITS11_SIZE), 16)]

\* BitIter::next: the iterator afterwards and the Option<Bits11> returned.
BitIter_next(it) ==
    LET f == BitIter_fill(it) IN
    IF f.it.panic \/ f.none
    THEN [it |-> f.it, some |-> FALSE, item |-> 0]
    ELSE [it   |-> [f.it EXCEPT !.buffer = Shl(@, BITS11_SIZE), !.read = @ - BITS11_SIZE],
          some |-> TRUE,
          item |-> LowBits(Shr(f.it.buffer, U64_WIDTH - BITS11_SIZE), 16)]

RECURSIVE BitIter_collect(_, _)
\* Draining the iterator, as `.map(..).join(" ")` does: every item up to the
\* first None, and the iterator left behind.
BitIter_collect(it, acc) ==
    LET n == BitIter_next(it) IN
    IF n.some THEN BitIter_collect(n.it, Append(acc, n.item))
    ELSE [it |-> n.it, items |-> acc]

\* ------------------------------------------------------- util.rs: BitWriter

BitWriter_with_capacity(capacity) ==
    [offset |-> 0, remainder |-> Zeros(U32_WIDTH), inner |-> <<>>, panic |-> FALSE]

\* BitWriter::push placing the value at the top of the remainder whatever the
\* offset, with no `>> self.offset`.
BitWriter_push_unshifted(w, source) ==
    LET shift == U32_WIDTH - BITS11_SIZE
        top   == BitOr(w.remainder, Shl(ToBits(source, U32_WIDTH), shift))
        bytes == (w.offset + BITS11_SIZE) \div U8_SIZE
    IN  [offset    |-> (w.offset + BITS11_SIZE) % U8_SIZE,
         remainder |-> Shl(top, U8_SIZE * bytes),
         inner     |-> w.inner
                       \o [i \in 1..bytes |->
                             LowBits(Shr(top, 24 - U8_SIZE * (i - 1)), U8_SIZE)],
         panic     |-> w.panic]

RECURSIVE BitWriter_drain(_)
\* The `while self.offset >= 8` loop of BitWriter::push.
BitWriter_drain(w) ==
    IF w.offset < U8_SIZE THEN w
    ELSE BitWriter_drain([w EXCEPT
            !.inner     = Append(@, LowBits(Shr(w.remainder, 24), U8_SIZE)),
            !.remainder = Shl(@, U8_SIZE),
            !.offset    = @ - U8_SIZE])

\* BitWriter::push::<Bits11>. A shift by the register's width or more panics.
BitWriter_push(w, source) ==
    LET shift == U32_WIDTH - BITS11_SIZE IN
    IF w.panic \/ w.offset >= U32_WIDTH THEN [w EXCEPT !.panic = TRUE]
    ELSE BitWriter_drain([w EXCEPT
            !.remainder = BitOr(@, Shr(Shl(ToBits(source, U32_WIDTH), shift), w.offset)),
            !.offset    = @ + BITS11_SIZE])

\* len() counting the whole bytes only.
BitWriter_len_whole_bytes(w) == Len(w.inner) * 8

BitWriter_len(w) == Len(w.inner) * 8 + w.offset

\* into_bytes leaving out the byte that is not yet full.
BitWriter_into_bytes_whole(w) == w.inner

BitWriter_into_bytes(w) ==
    IF w.offset # 0 THEN Append(w.inner, LowBits(Shr(w.remainder, 24), U8_SIZE))
    ELSE w.inner

\* ---------------------------------------------------------- util.rs: checksum

\* checksum taking the low bits of the byte, not its top bits.
checksum_low_bits(source, bits, build) ==
    [panic |-> FALSE, value |-> source % Pow2(bits)]

\* checksum(source: u8, bits: u8). Debug build: the debug_assert and the
\* overflow checks (8 - bits below zero, a shift of a u8 by 8) panic. Release
\* build: the subtraction wraps in u8 and the shift amount is masked to 3 bits.
checksum(source, bits, build) ==
    IF build = "debug"
    THEN IF bits > 8 \/ 8 - bits >= U8_SIZE
         THEN [panic |-> TRUE, value |-> 0]
         ELSE [panic |-> FALSE, value |-> source \div Pow2(8 - bits)]
    ELSE [panic |-> FALSE, value |-> source \div Pow2(((8 - bits) % 256) % 8)]

\* ------------------------------------- keyphrase_type.rs: KeyPhraseType
\* A KeyPhraseType is written as its word count.

KeyPhraseTypes == {12, 15, 18, 21, 24}

entropy_bits(mtype) == (mtype \div 3) * 32
checksum_bits(mtype) == mtype \div 3
total_bits(mtype) == entropy_bits(mtype) + checksum_bits(mtype)

\* Typed failures: error.rs ErrorKind, with the usize it carries.
Fail(kind, arg) == [ok |-> FALSE, err |-> kind, arg |-> arg, val |-> 0]
Pass(val) == [ok |-> TRUE, err |-> "", arg |-> 0, val |-> val]

for_key_size(size) ==
    IF \E t \in KeyPhraseTypes : entropy_bits(t) = size
    THEN Pass(CHOOSE t \in KeyPhraseTypes : entropy_bits(t) = size)
    ELSE Fail("InvalidKeysize", size)

for_word_count(size) ==
    IF size \in KeyPhraseTypes THEN Pass(size)
    ELSE Fail("InvalidWordLength", size)

\* ------------------------------------------ language.rs: the word catalogs
\* Each language has 2048 words, one per 11-bit index. The model's words are
\* three letters of a 16-letter alphabet of the language, the first letter
\* among the alphabet's first eight.

WORDLIST_SIZE == 2048

Languages == {"English", "French"}

Alphabet(lang) ==
    IF lang = "English"
    THEN <<"a", "b", "c", "d", "e", "f", "g", "h", "i", "j", "k", "l", "m", "n", "o", "p">>
    ELSE <<"k", "l", "m", "n", "o", "p", "q", "r", "s", "t", "u", "v", "w", "x", "y", "z">>

\* WordList::get_word: indexing the 2048-entry list; out of range panics.
get_word(lang, bits) ==
    IF bits >= WORDLIST_SIZE THEN [panic |-> TRUE, word |-> <<>>]
    ELSE LET a == Alphabet(lang) IN
         [panic |-> FALSE,
          word  |-> <<a[(bits \div 256) + 1], a[((bits \div 16) % 16) + 1], a[(bits % 16) + 1]>>]

LetterPlace ==
    [a |-> 0, b |-> 1, c |-> 2, d |-> 3, e |-> 4, f |-> 5, g |-> 6, h |-> 7, i |-> 8,
     j |-> 9, k |-> 10, l |-> 11, m |-> 12, n |-> 13, o |-> 14, p |-> 15, q |-> 16,
     r |-> 17, s |-> 18, t |-> 19, u |-> 20, v |-> 21, w |-> 22, x |-> 23, y |-> 24,
     z |-> 25]

\* Place of the letter in the language's alphabet, 16 for any other character.
LetterIndex(lang, c) ==
    LET first == IF lang = "English" THEN 0 ELSE 10 IN
    IF c \in DOMAIN LetterPlace /\ LetterPlace[c] >= first /\ LetterPlace[c] < first + 16
    THEN LetterPlace[c] - first
    ELSE 16

\* WordMap::get_bits: exact lookup of the token, InvalidWord on a miss.
get_bits(lang, word) ==
    IF Len(word) # 3 THEN Fail("InvalidWord", 0)
    ELSE LET d1 == LetterIndex(lang, word[1])
             d2 == LetterIndex(lang, word[2])
             d3 == LetterIndex(lang, word[3])
         IN  IF d1 < 8 /\ d2 < 16 /\ d3 < 16 THEN Pass(d1 * 256 + d2 * 16 + d3)
             ELSE Fail("InvalidWord", 0)

\* ------------------------------------------------- crypto.rs: the primitives

RECURSIVE Digest(_, _)
Digest(bytes, h) ==
    IF bytes = <<>> THEN h
    ELSE Digest(Tail(bytes), (h * 31 + Head(bytes) + 7) % 256)

\* First byte of the hash of the bytes: a fixed function of the bytes into 0..255.
sha256_first_byte(bytes) == Digest(bytes, (Len(bytes) * 5 + 1) % 256)

SEED_LEN == 64

\* The key derived from (input, salt): a fixed function into SEED_LEN bytes.
pbkdf2(input, salt) ==
    LET h == Digest(input, Len(salt) + 1) IN
    [i \in 1..SEED_LEN |-> (h * i + (i \div 5) * 3) % 256] \o <<>>

\* ------------------------------------------------ util.rs: IterExt::join

RECURSIVE join_rest(_, _, _)
\* The `for item in self` loop of join: glue, then the item.
join_rest(items, glue, buffer) ==
    IF items = <<>> THEN buffer
    ELSE join_rest(Tail(items), glue, buffer \o glue \o Head(items))

\* join putting the glue after every item.
join_glue_after_each(items, glue) == join_rest(items, glue, <<>>) \o glue

\* IterExt::join: the empty string for no item, else the first item and the
\* loop over the rest.
join(items, glue) ==
    IF items = <<>> THEN <<>>
    ELSE join_rest(Tail(items), glue, Head(items))

\* --------------------------------------------------------- str::split(" ")

RECURSIVE split_whitespace(_)
\* The tokens of text.split_whitespace(): empty tokens are left out.
split_whitespace(text) ==
    IF \A i \in 1..Len(text) : text[i] # " "
    THEN IF text = <<>> THEN <<>> ELSE <<text>>
    ELSE LET at == CHOOSE i \in 1..Len(text) :
                      text[i] = " " /\ \A j \in 1..(i - 1) : text[j] # " "
         IN  (IF at = 1 THEN <<>> ELSE <<SubSeq(text, 1, at - 1)>>)
             \o split_whitespace(SubSeq(text, at + 1, Len(text)))

RECURSIVE split(_)
\* The tokens of text.split(" "): the text up to the first separator, then the
\* tokens of what follows it; a text with no separator (the empty text too) is
\* one token. n separators give n + 1 tokens.
split(text) ==
    IF \A i \in 1..Len(text) : text[i] # " " THEN <<text>>
    ELSE LET at == CHOOSE i \in 1..Len(text) :
                      text[i] = " " /\ \A j \in 1..(i - 1) : text[j] # " "
         IN  <<SubSeq(text, 1, at - 1)>> \o split(SubSeq(text, at + 1, Len(text)))

\* ------------------------------------------------- keyphrase.rs: KeyPhrase

\* Result<KeyPhrase, Error> (and Result<(), Error>, with the fields empty), or
\* a panic.
Ok(phrase, lang, entropy) ==
    [kind |-> "Ok", err |-> "", arg |-> 0, phrase |-> phrase, lang |-> lang,
     entropy |-> entropy]
Err(kind, arg) ==
    [kind |-> "Err", err |-> kind, arg |-> arg, phrase |-> <<>>, lang |-> "",
     entropy |-> <<>>]
Panic ==
    [kind |-> "Panic", err |-> "", arg |-> 0, phrase |-> <<>>, lang |-> "",
     entropy |-> <<>>]

\* KeyPhrase::from_entropy_unchecked: the words of the 11-bit groups of
\* entropy ++ [checksum_byte], joined by " "; the entropy is stored as given.
from_entropy_unchecked(entropy, lang) ==
    LET checksum_byte == sha256_first_byte(entropy)
        bits  == BitIter_collect(BitIter_new(entropy \o <<checksum_byte>>), <<>>)
        words == [i \in 1..Len(bits.items) |-> get_word(lang, bits.items[i])] \o <<>>
    IN  IF bits.it.panic \/ \E i \in 1..Len(words) : words[i].panic THEN Panic
        ELSE Ok(join([i \in 1..Len(words) |-> words[i].word] \o <<>>, <<" ">>), lang, entropy)

\* from_entropy without its size check.
from_entropy_unvalidated(entropy, lang) == from_entropy_unchecked(entropy, lang)

\* from_entropy checking the length in bytes where the catalog wants bits.
from_entropy_in_bytes(entropy, lang) ==
    LET mtype == for_key_size(Len(entropy)) IN
    IF ~mtype.ok THEN Err(mtype.err, mtype.arg)
    ELSE from_entropy_unchecked(entropy, lang)

\* KeyPhrase::from_entropy: the size check, then from_entropy_unchecked.
from_entropy(entropy, lang) ==
    LET mtype == for_key_size(Len(entropy) * 8) IN
    IF ~mtype.ok THEN Err(mtype.err, mtype.arg)
    ELSE from_entropy_unchecked(entropy, lang)

RECURSIVE push_words_skipping(_, _, _)
\* The loop passing over a token that is no catalog word.
push_words_skipping(words, lang, bits) ==
    IF words = <<>> THEN [ok |-> TRUE, err |-> "", arg |-> 0, bits |-> bits]
    ELSE LET b == get_bits(lang, Head(words)) IN
         IF ~b.ok THEN push_words_skipping(Tail(words), lang, bits)
         ELSE LET pushed == BitWriter_push(bits, b.val) IN
              IF pushed.panic THEN [ok |-> TRUE, err |-> "", arg |-> 0, bits |-> pushed]
              ELSE push_words_skipping(Tail(words), lang, pushed)

RECURSIVE push_words(_, _, _)
\* The `for word in phrase.split(" ")` loop: the first miss of get_bits
\* returns its error.
push_words(words, lang, bits) ==
    IF words = <<>> THEN [ok |-> TRUE, err |-> "", arg |-> 0, bits |-> bits]
    ELSE LET b == get_bits(lang, Head(words)) IN
         IF ~b.ok THEN [ok |-> FALSE, err |-> b.err, arg |-> b.arg, bits |-> bits]
         ELSE LET pushed == BitWriter_push(bits, b.val) IN
              IF pushed.panic THEN [ok |-> TRUE, err |-> "", arg |-> 0, bits |-> pushed]
              ELSE push_words(Tail(words), lang, pushed)

\* KeyPhrase::phrase_to_entropy.
phrase_to_entropy(phrase, lang, build) ==
    LET pushed == push_words(split(phrase), lang, BitWriter_with_capacity(WRITER_CAPACITY))
        bits   == pushed.bits
        mtype  == for_word_count(BitWriter_len(bits) \div 11)
        bytes  == BitWriter_into_bytes(bits)
        entropy_bytes == entropy_bits(mtype.val) \div 8
        actual   == checksum(bytes[entropy_bytes + 1], checksum_bits(mtype.val), build)
        entropy  == SubSeq(bytes, 1, entropy_bytes)
        expected == checksum(sha256_first_byte(entropy), checksum_bits(mtype.val), build)
    IN  IF ~pushed.ok THEN Err(pushed.err, pushed.arg)
        ELSE IF bits.panic THEN Panic
        ELSE IF ~mtype.ok THEN Err(mtype.err, mtype.arg)
        ELSE IF build = "debug" /\ BitWriter_len(bits) # total_bits(mtype.val) THEN Panic
        ELSE IF entropy_bytes + 1 > Len(bytes) THEN Panic
        ELSE IF actual.panic \/ expected.panic THEN Panic
        ELSE IF actual.value # expected.value THEN Err("InvalidChecksum", 0)
        ELSE Ok(<<>>, "", entropy)

\* KeyPhrase::from_phrase: the phrase is stored as given.
from_phrase(phrase, lang, build) ==
    LET entropy == phrase_to_entropy(phrase, lang, build) IN
    IF entropy.kind # "Ok" THEN entropy
    ELSE Ok(phrase, lang, entropy.entropy)

\* KeyPhrase::validate: Ok(()) or the error of phrase_to_entropy.
validate(phrase, lang, build) ==
    LET entropy == phrase_to_entropy(phrase, lang, build) IN
    IF entropy.kind # "Ok" THEN entropy
    ELSE Ok(<<>>, "", <<>>)

\* ------------------------------- keyphrase.rs, seed.rs: LowerHex, UpperHex

HexDigit(d, upper) ==
    IF upper
    THEN <<"0", "1", "2", "3", "4", "5", "6", "7", "8", "9", "A", "B", "C", "D", "E", "F">>[d + 1]
    ELSE <<"0", "1", "2", "3", "4", "5", "6", "7", "8", "9", "a", "b", "c", "d", "e", "f">>[d + 1]

\* write!(f, "{:x}", byte) / "{:X}": the digits of the byte with no padding.
write_hex(byte, upper) ==
    IF byte < 16 THEN <<HexDigit(byte, upper)>>
    ELSE <<HexDigit(byte \div 16, upper), HexDigit(byte % 16, upper)>>

RECURSIVE fmt_bytes(_, _, _)
\* The `for byte in ..` loop of the fmt functions.
fmt_bytes(bytes, upper, f) ==
    IF bytes = <<>> THEN f
    ELSE fmt_bytes(Tail(bytes), upper, f \o write_hex(Head(bytes), upper))

\* impl LowerHex / UpperHex for KeyPhrase: "0x" under the alternate flag, then
\* every byte of the entropy.
KeyPhrase_fmt(entropy, upper, alternate) ==
    fmt_bytes(entropy, upper, IF alternate THEN <<"0", "x">> ELSE <<>>)

\* impl LowerHex / UpperHex for Seed.
Seed_fmt(bytes, upper, alternate) ==
    fmt_bytes(bytes, upper, IF alternate THEN <<"0", "x">> ELSE <<>>)

\* Seed::new: the key derived from the entropy with salt "keyphrase" ++ password.
Seed_new(entropy, password) ==
    pbkdf2(entropy, <<"k", "e", "y", "p", "h", "r", "a", "s", "e">> \o password)

\* ------------------------------------------------------ the caller's inputs

Builds == {"debug", "release"}

\* Entropy fill patterns: all zero bits, all one bits, then mixed bytes.
PatternByte(p, i) ==
    IF p = 1 THEN 0
    ELSE IF p = 2 THEN 255
    ELSE (17 * p + (31 + 2 * p) * (i - 1)) % 256

Pattern(p, len) == [i \in 1..len |-> PatternByte(p, i)] \o <<>>

\* The byte sequences handed to from_entropy: every length up to the bound.
EntropyInputs == {Pattern(p, len) : p \in 1..NumPatterns, len \in 0..MaxEntropyLen}

\* gen_random_bytes(n): some n bytes, here of the mixed patterns.
gen_random_bytes(n) == {Pattern(p, n) : p \in 3..NumPatterns}

Passwords == {<<>>, <<"p", "w">>}

IterBytes == {0, 165, 255}

\* The byte sequences a BitIter is stepped over: every sequence of IterBytes up
\* to the bound, and what from_entropy_unchecked feeds it, the entropy followed
\* by its checksum byte.
IterInputs ==
    UNION { { f \o <<>> : f \in [1..n -> IterBytes] } : n \in 0..MaxIterBytes }
    \cup { e \o <<sha256_first_byte(e)>> : e \in EntropyInputs }

Lower == <<"a", "b", "c", "d", "e", "f", "g", "h", "i", "j", "k", "l", "m",
           "n", "o", "p", "q", "r", "s", "t", "u", "v", "w", "x", "y", "z">>
Upper == <<"A", "B", "C", "D", "E", "F", "G", "H", "I", "J", "K", "L", "M",
           "N", "O", "P", "Q", "R", "S", "T", "U", "V", "W", "X", "Y", "Z">>

\* The word with its first letter capitalized.
Capitalized(word) ==
    [word EXCEPT ![1] = Upper[CHOOSE k \in 1..26 : Lower[k] = word[1]]]

\* The first k of the words, the words repeated as often as needed.
Resized(words, k) == [i \in 1..k |-> words[((i - 1) % Len(words)) + 1]] \o <<>>

\* Tokens that are no word of the language's catalog: a capitalized word, three
\* catalog letters past the last index, a word cut short, a word with a letter
\* too many, the empty token, a word of another alphabet.
BadTokens(lang, word) ==
    LET a == Alphabet(lang) IN
    { Capitalized(word), <<a[16], a[1], a[1]>>, SubSeq(word, 1, 2),
      Append(word, a[1]), <<>>, <<"0", "0", "0">> }

SubstIndices == {0, 1, 1024, 2047}

\* The texts a caller holding the phrase of a KeyPhrase hands to from_phrase and
\* validate: the phrase cut or extended to k words; one token of it replaced
\* by a token outside the catalog; one word replaced by another catalog word;
\* the empty text.
TextInputs(phrase, lang) ==
    LET words == split(phrase)
        n     == Len(words)
    IN  { join(Resized(words, k), <<" ">>) : k \in 1..MaxWordCount }
        \cup UNION { { join([Resized(words, k) EXCEPT ![i] = t], <<" ">>) :
                         i \in {1, k}, t \in BadTokens(lang, words[1]) } :
                       k \in {1, 13, n} }
        \cup { join([i \in 1..n |-> IF i = pos THEN get_word(lang, j).word ELSE words[i]], <<" ">>) :
                 pos \in {1, n}, j \in SubstIndices }
        \cup { <<>> }

\* The 11-bit values pushed into a BitWriter stepped by hand: the lowest bit
\* alone, alternating bits, and every bit set.
PushValues == {1, 1365, 2047}

\* ------------------------------------------------------------- the state

VARIABLES
    build,     \* the build the crate was compiled as
    call1,     \* the call that constructed the KeyPhrase the caller holds
    call2,     \* the next call, made with what call1 returned
    call3,     \* from_entropy called with the entropy from_phrase returned in call2
    seed,      \* the Seed derived from the KeyPhrase of call1
    rendered,  \* the last hexadecimal rendering
    iter,      \* a BitIter<u8, Bits11> the caller steps by hand
    iter_in,   \* the bytes that BitIter was created over
    iter_out,  \* the items its next() returned so far
    iter_done, \* its last next() returned None
    writer,    \* a BitWriter the caller pushes into by hand
    writer_in, \* the 11-bit values pushed into it so far
    writer_out,\* what into_bytes returned, once it has consumed the writer
    sum        \* the last call of checksum and what it returned

\* What the calls on a KeyPhrase leave alone: the BitIter, the BitWriter and
\* the checksum the caller drives by hand.
standalone == <<iter, iter_in, iter_out, iter_done, writer, writer_in, writer_out, sum>>

vars == <<build, call1, call2, call3, seed, rendered, standalone>>

NoResult ==
    [kind |-> "None", err |-> "", arg |-> 0, phrase |-> <<>>, lang |-> "",
     entropy |-> <<>>]
NoCall ==
    [op |-> "none", entropy_in |-> <<>>, phrase_in |-> <<>>, lang |-> "",
     res |-> NoResult]
NoSeed == [some |-> FALSE, password |-> <<>>, bytes |-> <<>>]
NoRender ==
    [of |-> "none", bytes |-> <<>>, upper |-> FALSE, alternate |-> FALSE, text |-> <<>>]

Call(op, entropy_in, phrase_in, lang, res) ==
    [op |-> op, entropy_in |-> entropy_in, phrase_in |-> phrase_in, lang |-> lang,
     res |-> res]

\* The caller holds a KeyPhrase and has done nothing with it yet.
Holding ==
    /\ call1.res.kind = "Ok"
    /\ call2 = NoCall
    /\ ~seed.some
    /\ rendered = NoRender

IterIdle ==
    /\ iter = BitIter_new(<<>>)
    /\ iter_in = <<>>
    /\ iter_out = <<>>
    /\ iter_done = FALSE

NoBytes == [some |-> FALSE, bytes |-> <<>>]

WriterIdle ==
    /\ writer = BitWriter_with_capacity(WRITER_CAPACITY)
    /\ writer_in = <<>>
    /\ writer_out = NoBytes

NoSum == [called |-> FALSE, source |-> 0, bits |-> 0, panic |-> FALSE, value |-> 0]

FacadeIdle ==
    /\ call1 = NoCall
    /\ call2 = NoCall
    /\ call3 = NoCall
    /\ seed = NoSeed
    /\ rendered = NoRender

Init ==
    /\ build \in Builds
    /\ FacadeIdle
    /\ IterIdle
    /\ WriterIdle
    /\ sum = NoSum

\* KeyPhrase::new(keyphrase_type, lang).
New ==
    /\ call1 = NoCall
    /\ \E mtype \in KeyPhraseTypes, lang \in Languages :
         \E entropy \in gen_random_bytes(entropy_bits(mtype) \div 8) :
            call1' = Call("new", entropy, <<>>, lang, from_entropy_unchecked(entropy, lang))
    /\ UNCHANGED <<build, call2, call3, seed, rendered, standalone>>

\* KeyPhrase::from_entropy(entropy, lang).
FromEntropy ==
    /\ call1 = NoCall
    /\ \E entropy \in EntropyInputs, lang \in Languages :
         call1' = Call("from_entropy", entropy, <<>>, lang, from_entropy(entropy, lang))
    /\ UNCHANGED <<build, call2, call3, seed, rendered, standalone>>

\* KeyPhrase::from_entropy(m1.entropy(), lang) again, as the test back_to_back does.
FromEntropyAgain ==
    /\ Holding
    /\ \E lang \in Languages :
         call2' = Call("from_entropy", call1.res.entropy, <<>>, lang,
                       from_entropy(call1.res.entropy, lang))
    /\ UNCHANGED <<build, call1, call3, seed, rendered, standalone>>

\* KeyPhrase::from_phrase(phrase, lang).
FromPhrase ==
    /\ Holding
    /\ \E phrase \in TextInputs(call1.res.phrase, call1.res.lang), lang \in Languages :
         call2' = Call("from_phrase", <<>>, phrase, lang, from_phrase(phrase, lang, build))
    /\ UNCHANGED <<build, call1, call3, seed, rendered, standalone>>

\* KeyPhrase::validate(phrase, lang).
Validate ==
    /\ Holding
    /\ \E phrase \in TextInputs(call1.res.phrase, call1.res.lang), lang \in Languages :
         call2' = Call("validate", <<>>, phrase, lang, validate(phrase, lang, build))
    /\ UNCHANGED <<build, call1, call3, seed, rendered, standalone>>

\* KeyPhrase::from_entropy(m2.entropy(), lang) with the KeyPhrase m2 that
\* from_phrase returned, in the language m2 was decoded in.
FromEntropyOfDecoded ==
    /\ call2.op = "from_phrase"
    /\ call2.res.kind = "Ok"
    /\ call3 = NoCall
    /\ call3' = Call("from_entropy", call2.res.entropy, <<>>, call2.lang,
                     from_entropy(call2.res.entropy, call2.lang))
    /\ UNCHANGED <<build, call1, call2, seed, rendered, standalone>>

\* Seed::new(&keyphrase, password).
SeedNew ==
    /\ Holding
    /\ \E password \in Passwords :
         seed' = [some |-> TRUE, password |-> password,
                  bytes |-> Seed_new(call1.res.entropy, password)]
    /\ UNCHANGED <<build, call1, call2, call3, rendered, standalone>>

\* format!("{:x}" | "{:X}" | "{:#x}" | "{:#X}", keyphrase).
FormatKeyPhrase ==
    /\ Holding
    /\ \E upper \in BOOLEAN, alternate \in BOOLEAN :
         rendered' = [of |-> "keyphrase", bytes |-> call1.res.entropy, upper |-> upper,
                      alternate |-> alternate,
                      text |-> KeyPhrase_fmt(call1.res.entropy, upper, alternate)]
    /\ UNCHANGED <<build, call1, call2, call3, seed, standalone>>

\* format!("{:x}" | "{:X}" | "{:#x}" | "{:#X}", seed).
FormatSeed ==
    /\ seed.some
    /\ rendered = NoRender
    /\ \E upper \in BOOLEAN, alternate \in BOOLEAN :
         rendered' = [of |-> "seed", bytes |-> seed.bytes, upper |-> upper,
                      alternate |-> alternate,
                      text |-> Seed_fmt(seed.bytes, upper, alternate)]
    /\ UNCHANGED <<build, call1, call2, call3, seed, standalone>>

Next ==
    \/ New
    \/ FromEntropy
    \/ FromEntropyAgain
    \/ FromPhrase
    \/ Validate
    \/ FromEntropyOfDecoded
    \/ SeedNew
    \/ FormatKeyPhrase
    \/ FormatSeed

Spec == Init /\ [][Next]_vars

\* ------------------------------------------- a BitIter stepped by hand

IterInit ==
    /\ build = "debug"
    /\ FacadeIdle
    /\ iter_in \in IterInputs
    /\ iter = BitIter_new(iter_in)
    /\ iter_out = <<>>
    /\ iter_done = FALSE
    /\ WriterIdle
    /\ sum = NoSum

\* One call of BitIter::next.
IterNext ==
    /\ ~iter.panic
    /\ LET n == BitIter_next(iter) IN
         /\ iter' = n.it
         /\ iter_out' = IF n.some THEN Append(iter_out, n.item) ELSE iter_out
         /\ iter_done' = ~n.some
    /\ UNCHANGED <<build, call1, call2, call3, seed, rendered, iter_in,
                   writer, writer_in, writer_out, sum>>

SpecBitIter == IterInit /\ [][IterNext]_vars

\* ----------------------------------------- a BitWriter pushed into by hand

WriterInit ==
    /\ build = "debug"
    /\ FacadeIdle
    /\ IterIdle
    /\ WriterIdle
    /\ sum = NoSum

\* writer.push(Bits11::from(value)).
WriterPush ==
    /\ ~writer_out.some
    /\ ~writer.panic
    /\ Len(writer_in) < MaxPushes
    /\ \E value \in PushValues :
         /\ writer' = BitWriter_push(writer, value)
         /\ writer_in' = Append(writer_in, value)
    /\ UNCHANGED <<build, call1, call2, call3, seed, rendered, iter, iter_in,
                   iter_out, iter_done, writer_out, sum>>

\* writer.into_bytes(), which consumes the writer.
WriterIntoBytes ==
    /\ ~writer_out.some
    /\ ~writer.panic
    /\ writer_out' = [some |-> TRUE, bytes |-> BitWriter_into_bytes(writer)]
    /\ UNCHANGED <<build, call1, call2, call3, seed, rendered, iter, iter_in,
                   iter_out, iter_done, writer, writer_in, sum>>

WriterNext ==
    \/ WriterPush
    \/ WriterIntoBytes

SpecBitWriter == WriterInit /\ [][WriterNext]_vars

\* ------------------------------------------------- checksum called alone

\* The arguments of checksum(source: u8, bits: u8) that its debug_assert admits.
ChecksumSources == 0..255
ChecksumBits == 0..8

ChecksumInit ==
    /\ build \in Builds
    /\ FacadeIdle
    /\ IterIdle
    /\ WriterIdle
    /\ sum = NoSum

\* checksum(source, bits).
ChecksumCall ==
    /\ \E source \in ChecksumSources, bits \in ChecksumBits :
         LET res == checksum(source, bits, build) IN
         sum' = [called |-> TRUE, source |-> source, bits |-> bits,
                 panic |-> res.panic, value |-> res.value]
    /\ UNCHANGED <<build, call1, call2, call3, seed, rendered, iter, iter_in,
                   iter_out, iter_done, writer, writer_in, writer_out>>

SpecChecksum == ChecksumInit /\ [][ChecksumCall]_vars

\* ----------------------------------------------------------- the claims

ValidEntropyLens == {16, 20, 24, 28, 32}

Constructed == call1.op \in {"from_entropy", "new"}
Decoding == call2.op \in {"from_phrase", "validate"}

\* C1: round trip. from_entropy(e, l) succeeds for every e of a valid length;
\* from_phrase of its phrase, under the same language, succeeds with entropy e
\* and the same phrase; from_entropy(e, l) again gives the same phrase and
\* entropy.
C1_RoundTrip ==
    /\ (call1.op = "from_entropy" /\ Len(call1.entropy_in) \in ValidEntropyLens)
          => call1.res.kind = "Ok"
    /\ (Constructed /\ call2.op = "from_phrase" /\ call2.lang = call1.lang
           /\ call2.phrase_in = call1.res.phrase)
          => /\ call2.res.kind = "Ok"
             /\ call2.res.entropy = call1.entropy_in
             /\ call2.res.phrase = call1.res.phrase
    /\ (Constructed /\ call2.op = "from_entropy" /\ call2.lang = call1.lang)
          => /\ call2.res.kind = "Ok"
             /\ call2.res.entropy = call1.entropy_in
             /\ call2.res.phrase = call1.res.phrase

C1_Witness ==
    /\ call1.op = "from_entropy"
    /\ Len(call1.entropy_in) = 32
    /\ \E i \in 1..32 : call1.entropy_in[i] \notin {0, 255}
    /\ call2.op = "from_phrase"
    /\ call2.lang = call1.lang
    /\ call2.phrase_in = call1.res.phrase
    /\ call2.res.kind = "Ok"
    /\ call2.res.entropy = call1.entropy_in

\* C2: from_entropy fails with InvalidKeysize for every byte sequence whose
\* length is not 16, 20, 24, 28 or 32 (the empty one too) and succeeds for
\* every byte sequence whose length is one of these.
C2_KeysizeChecked ==
    call1.op = "from_entropy" =>
        IF Len(call1.entropy_in) \in ValidEntropyLens
        THEN call1.res.kind = "Ok"
        ELSE call1.res.kind = "Err" /\ call1.res.err = "InvalidKeysize"

C2_Witness ==
    /\ call1.op = "from_entropy"
    /\ call1.entropy_in = <<>>
    /\ call1.res.kind = "Err"
    /\ call1.res.err = "InvalidKeysize"

\* C3 as stated: from_entropy fails with InvalidEntropyLength unless
\* bytes.length * 8 is the entropy_bits of one of the five phrase lengths.
C3_AsStated ==
    (call1.op = "from_entropy"
        /\ \A t \in KeyPhraseTypes : entropy_bits(t) # Len(call1.entropy_in) * 8)
      => (call1.res.kind = "Err" /\ call1.res.err = "InvalidEntropyLength")

\* C3 amended: that failure is of kind InvalidKeysize and carries
\* bytes.length * 8; no call of from_entropy yields InvalidEntropyLength.
C3_InvalidKeysizeInBits ==
    /\ (call1.op = "from_entropy"
          /\ \A t \in KeyPhraseTypes : entropy_bits(t) # Len(call1.entropy_in) * 8)
         => /\ call1.res.kind = "Err"
            /\ call1.res.err = "InvalidKeysize"
            /\ call1.res.arg = Len(call1.entropy_in) * 8
    /\ call1.res.err # "InvalidEntropyLength"
    /\ call2.op = "from_entropy" => call2.res.err # "InvalidEntropyLength"

C3_Witness ==
    /\ call1.op = "from_entropy"
    /\ Len(call1.entropy_in) = 17
    /\ call1.res.err = "InvalidKeysize"
    /\ call1.res.arg = 136

\* The tokens of the text handed to call2, and their number counted by the
\* separators.
Tokens == split(call2.phrase_in)
TokenCount == Cardinality({i \in 1..Len(call2.phrase_in) : call2.phrase_in[i] = " "}) + 1
InCatalog(lang, token) == get_bits(lang, token).ok
AllInCatalog == \A i \in 1..Len(Tokens) : InCatalog(call2.lang, Tokens[i])

\* C4: from_phrase and validate, on a text whose tokens are all catalog words
\* and whose token count is not 12, 15, 18, 21 or 24, fail with
\* InvalidWordLength carrying the count.
C4_WordCountChecked ==
    (Decoding /\ AllInCatalog /\ TokenCount \notin KeyPhraseTypes)
      => /\ call2.res.kind = "Err"
         /\ call2.res.err = "InvalidWordLength"
         /\ call2.res.arg = TokenCount

C4_Witness ==
    /\ call2.op = "from_phrase"
    /\ AllInCatalog
    /\ TokenCount = 13
    /\ call2.res.err = "InvalidWordLength"
    /\ call2.res.arg = 13

\* C5: from_phrase and validate fail with InvalidWord whenever some token of
\* the text is not exactly a word of the selected catalog, whatever the number
\* of tokens and whatever the other tokens.
C5_UnknownWordRejected ==
    (Decoding /\ ~AllInCatalog)
      => (call2.res.kind = "Err" /\ call2.res.err = "InvalidWord")

\* The phrase of call1 with its first letter capitalized, under call1's language.
C5_Witness ==
    /\ call2.op = "from_phrase"
    /\ call2.lang = call1.lang
    /\ Len(call2.phrase_in) = Len(call1.res.phrase)
    /\ call2.phrase_in[1] = Upper[CHOOSE k \in 1..26 : Lower[k] = call1.res.phrase[1]]
    /\ \A i \in 2..Len(call2.phrase_in) : call2.phrase_in[i] = call1.res.phrase[i]
    /\ call2.res.kind = "Err"
    /\ call2.res.err = "InvalidWord"

\* Bit j (from 0) of the big-endian concatenation of the 11 bits of each index,
\* zero past its end, and byte m (from 0) of that bit stream.
StreamBit(idx, j) ==
    IF j >= 11 * Len(idx) THEN 0
    ELSE (idx[(j \div 11) + 1] \div Pow2(10 - (j % 11))) % 2
StreamByte(idx, m) ==
    128 * StreamBit(idx, 8 * m) + 64 * StreamBit(idx, 8 * m + 1)
    + 32 * StreamBit(idx, 8 * m + 2) + 16 * StreamBit(idx, 8 * m + 3)
    + 8 * StreamBit(idx, 8 * m + 4) + 4 * StreamBit(idx, 8 * m + 5)
    + 2 * StreamBit(idx, 8 * m + 6) + StreamBit(idx, 8 * m + 7)

\* C6: for a text of n catalog words, n in {12, 15, 18, 21, 24}, from_phrase
\* and validate succeed exactly if the top n/3 bits of decoded byte number
\* entropy_bits/8 equal the top n/3 bits of the first hash byte of the decoded
\* bytes before it, and fail with InvalidChecksum otherwise; on success
\* from_phrase stores those bytes and the text as given.
C6_ChecksumDecides ==
    (Decoding /\ AllInCatalog /\ TokenCount \in KeyPhraseTypes)
      => LET idx  == [i \in 1..Len(Tokens) |-> get_bits(call2.lang, Tokens[i]).val] \o <<>>
             eb   == (TokenCount \div 3) * 4
             cb   == TokenCount \div 3
             ent  == [m \in 1..eb |-> StreamByte(idx, m - 1)] \o <<>>
             have == StreamByte(idx, eb) \div Pow2(8 - cb)
             want == sha256_first_byte(ent) \div Pow2(8 - cb)
         IN  IF have = want
             THEN /\ call2.res.kind = "Ok"
                  /\ call2.op = "from_phrase"
                       => (call2.res.entropy = ent /\ call2.res.phrase = call2.phrase_in
                           /\ call2.res.lang = call2.lang)
             ELSE call2.res.kind = "Err" /\ call2.res.err = "InvalidChecksum"

\* A phrase of call1 with one word replaced by another catalog word, refused.
C6_Witness ==
    /\ call2.op = "from_phrase"
    /\ AllInCatalog
    /\ TokenCount = 24
    /\ call2.phrase_in # call1.res.phrase
    /\ call2.res.kind = "Err"
    /\ call2.res.err = "InvalidChecksum"

ErrorKinds ==
    {"InvalidChecksum", "InvalidWord", "InvalidKeysize", "InvalidWordLength",
     "InvalidEntropyLength"}
Returned(res) ==
    \/ res.kind \in {"None", "Ok"}
    \/ res.kind = "Err" /\ res.err \in ErrorKinds

\* C7: no call of from_entropy, from_phrase or validate panics: each returns a
\* KeyPhrase or a typed error; when the words are all pushed no shift of push
\* was out of range, and when the word count is valid the asserted
\* bits.len() = total_bits holds, the index entropy_bits/8 is within the
\* decoded bytes and the shift of checksum is in 0..7.
C7_NoPanic ==
    /\ Returned(call1.res)
    /\ Returned(call2.res)
    /\ Decoding =>
         LET pushed == push_words(Tokens, call2.lang, BitWriter_with_capacity(WRITER_CAPACITY))
             mtype  == for_word_count(BitWriter_len(pushed.bits) \div 11)
         IN  pushed.ok =>
               /\ ~pushed.bits.panic
               /\ pushed.bits.offset < U8_SIZE
               /\ mtype.ok =>
                    /\ BitWriter_len(pushed.bits) = total_bits(mtype.val)
                    /\ entropy_bits(mtype.val) \div 8 < Len(BitWriter_into_bytes(pushed.bits))
                    /\ 8 - checksum_bits(mtype.val) \in 0..7

\* 12 words decode to 16 whole bytes and 4 more bits: the checksum is read
\* from the byte into_bytes adds for them.
C7_Witness ==
    /\ call2.op = "validate"
    /\ build = "debug"
    /\ AllInCatalog
    /\ TokenCount = 12
    /\ call2.res.kind = "Ok"

\* C9: the phrase built by from_entropy and by new for entropy of 16, 20, 24,
\* 28 or 32 bytes is 12, 15, 18, 21 or 24 catalog words with exactly one space
\* between neighbours and none before or after, and the stored entropy is the
\* input bytes.
C9_PhraseShape ==
    (Constructed /\ Len(call1.entropy_in) \in ValidEntropyLens)
      => LET text  == call1.res.phrase
             words == split(text)
             n     == Len(call1.entropy_in)
         IN  /\ call1.res.kind = "Ok"
             /\ Cardinality({i \in 1..Len(text) : text[i] = " "}) + 1 = (3 * n) \div 4
             /\ Len(words) = (3 * n) \div 4
             /\ \A i \in 1..Len(words) : InCatalog(call1.lang, words[i])
             /\ text[1] # " " /\ text[Len(text)] # " "
             /\ \A i \in 1..(Len(text) - 1) : ~(text[i] = " " /\ text[i + 1] = " ")
             /\ call1.res.entropy = call1.entropy_in
             /\ call1.res.lang = call1.lang

C9_Witness ==
    /\ call1.op = "new"
    /\ Len(call1.entropy_in) = 28
    /\ call1.res.kind = "Ok"
    /\ Len(split(call1.res.phrase)) = 21

\* C8: the hexadecimal rendering of the entropy of a KeyPhrase and of the bytes
\* of a Seed is two digits per byte, a byte below 16 with a leading zero, after
\* "0x" under the alternate flag.
C8_TwoDigitsPerByte ==
    rendered.of # "none" =>
        LET skip == IF rendered.alternate THEN 2 ELSE 0 IN
        /\ Len(rendered.text) = skip + 2 * Len(rendered.bytes)
        /\ rendered.alternate => (rendered.text[1] = "0" /\ rendered.text[2] = "x")
        /\ \A i \in 1..Len(rendered.bytes) :
             /\ rendered.text[skip + 2 * i - 1]
                  = HexDigit(rendered.bytes[i] \div 16, rendered.upper)
             /\ rendered.text[skip + 2 * i]
                  = HexDigit(rendered.bytes[i] % 16, rendered.upper)

\* Bit j (from 0) of the big-endian concatenation of the bytes, and the value of
\* its bits 11k .. 11k + 10.
ByteStreamBit(bytes, j) == (bytes[(j \div 8) + 1] \div Pow2(7 - (j % 8))) % 2
Group(bytes, k) ==
    1024 * ByteStreamBit(bytes, 11 * k) + 512 * ByteStreamBit(bytes, 11 * k + 1)
    + 256 * ByteStreamBit(bytes, 11 * k + 2) + 128 * ByteStreamBit(bytes, 11 * k + 3)
    + 64 * ByteStreamBit(bytes, 11 * k + 4) + 32 * ByteStreamBit(bytes, 11 * k + 5)
    + 16 * ByteStreamBit(bytes, 11 * k + 6) + 8 * ByteStreamBit(bytes, 11 * k + 7)
    + 4 * ByteStreamBit(bytes, 11 * k + 8) + 2 * ByteStreamBit(bytes, 11 * k + 9)
    + ByteStreamBit(bytes, 11 * k + 10)

\* C10: over any byte sequence B the k-th item of BitIter is bits 11k .. 11k+10
\* of the big-endian concatenation of B; floor(8|B| / 11) items are returned
\* before None; each is in 0..2047; every item is made of 11 bits read from B
\* (the bits returned and the bits still buffered are the bits read).
C10_GroupsOfEleven ==
    /\ ~iter.panic
    /\ Len(iter_out) <= (8 * Len(iter_in)) \div 11
    /\ \A k \in 1..Len(iter_out) :
         iter_out[k] = Group(iter_in, k - 1) /\ iter_out[k] \in 0..2047
    /\ iter_done => Len(iter_out) = (8 * Len(iter_in)) \div 11
    /\ iter.read >= 0
    /\ 11 * Len(iter_out) + iter.read = 8 * (Len(iter_in) - Len(iter.source))

\* Three bytes: two items, and the two bits left over are never handed out.
C10_Witness ==
    /\ iter_done
    /\ iter_in = <<165, 255, 0>>
    /\ iter_out = <<1327, 1984>>
    /\ iter.read = 2

\* The BitIter runs over what from_entropy_unchecked feeds it: entropy of a
\* valid length followed by its checksum byte.
EncoderInput ==
    /\ Len(iter_in) - 1 \in ValidEntropyLens
    /\ iter_in[Len(iter_in)] = sha256_first_byte(SubSeq(iter_in, 1, Len(iter_in) - 1))

\* C11 as stated: run over the entropy and the checksum byte, the encoder's
\* input is a whole number of 11-bit groups and it ends with no unread bits in
\* its buffer.
C11_AsStated ==
    (EncoderInput /\ iter_done)
      => ((8 * Len(iter_in)) % 11 = 0 /\ iter.read = 0)

\* C11 amended: the input is total_bits + (8 - checksum_bits) bits long; the
\* encoder returns total_bits / 11 items and ends with the 8 - checksum_bits low
\* bits of the checksum byte unread at the top of its buffer (none for 32 bytes
\* of entropy alone), the rest of the buffer zero.
C11_UnusedChecksumBitsRemain ==
    EncoderInput =>
        LET mtype == (3 * (Len(iter_in) - 1)) \div 4
            spare == 8 - checksum_bits(mtype)
        IN  /\ 8 * Len(iter_in) = total_bits(mtype) + spare
            /\ total_bits(mtype) % 11 = 0
            /\ iter_done =>
                 /\ Len(iter_out) = total_bits(mtype) \div 11
                 /\ iter.source = <<>>
                 /\ iter.read = spare
                 /\ BitsValue(SubSeq(iter.buffer, 1, spare), 1, 0)
                      = iter_in[Len(iter_in)] % Pow2(spare)
                 /\ SubSeq(iter.buffer, spare + 1, U64_WIDTH) = Zeros(U64_WIDTH - spare)

\* 16 bytes of entropy: 12 items, and 4 bits of the checksum byte left unread.
C11_Witness ==
    /\ EncoderInput
    /\ iter_done
    /\ Len(iter_in) = 17
    /\ Len(iter_out) = 12
    /\ iter.read = 4
    /\ iter_in[17] % 16 # 0

\* Bit j (from 0) of the pushed values laid end to end, 11 bits each, first
\* value and highest bit first; 0 past the last pushed bit.
PushedBit(j) ==
    IF j < 11 * Len(writer_in)
    THEN (writer_in[(j \div 11) + 1] \div Pow2(10 - (j % 11))) % 2
    ELSE 0

\* Byte m (from 1) of that bit string, padded with zero bits to a whole byte.
PushedByte(m) ==
    128 * PushedBit(8 * (m - 1))     + 64 * PushedBit(8 * (m - 1) + 1)
  + 32  * PushedBit(8 * (m - 1) + 2) + 16 * PushedBit(8 * (m - 1) + 3)
  + 8   * PushedBit(8 * (m - 1) + 4) + 4  * PushedBit(8 * (m - 1) + 5)
  + 2   * PushedBit(8 * (m - 1) + 6) +      PushedBit(8 * (m - 1) + 7)

\* C12: after k pushes of 11-bit values the BitWriter's offset is in 0..7 and
\* len() is 11*k; into_bytes returns ceil(11*k / 8) bytes, the big-endian
\* concatenation of the values' bits, the unused low bits of the last byte
\* zero, and no byte more when 11*k is a multiple of 8.
C12_WriterPacksBigEndian ==
    LET k == Len(writer_in) IN
    /\ ~writer.panic
    /\ writer.offset \in 0..7
    /\ BitWriter_len(writer) = 11 * k
    /\ writer_out.some =>
         /\ Len(writer_out.bytes) = (11 * k + 7) \div 8
         /\ \A m \in 1..Len(writer_out.bytes) : writer_out.bytes[m] = PushedByte(m)
         /\ (11 * k) % 8 = 0 => Len(writer_out.bytes) = (11 * k) \div 8

\* Three pushes ending in every bit set: 33 bits in five bytes, the last byte
\* holding one bit and seven bits of padding.
C12_Witness ==
    /\ writer_out.some
    /\ writer_in = <<1, 1365, 2047>>
    /\ writer.offset = 1
    /\ writer_out.bytes = <<0, 53, 87, 255, 128>>

\* C13 as stated: for every byte and every n in 0..8, checksum(byte, n) returns
\* byte >> (8 - n), the top n bits of the byte, a number in 0..2^n - 1, so 0 for
\* n = 0 and the byte itself for n = 8, and it does not overflow or panic.
C13_TopBitsForZeroToEight ==
    sum.called =>
        /\ ~sum.panic
        /\ sum.value = sum.source \div Pow2(8 - sum.bits)
        /\ sum.value \in 0..(Pow2(sum.bits) - 1)
        /\ sum.bits = 0 => sum.value = 0
        /\ sum.bits = 8 => sum.value = sum.source

\* C14: when from_phrase(p, l) succeeds with entropy e, from_entropy(e, l)
\* succeeds, holds e, and its phrase is p character for character; and a text
\* that from_phrase decodes to the entropy of the KeyPhrase already held, in
\* that KeyPhrase's language, is that KeyPhrase's phrase.
C14_ReverseRoundTrip ==
    /\ call3 # NoCall =>
         /\ call3.res.kind = "Ok"
         /\ call3.res.entropy = call2.res.entropy
         /\ call3.res.phrase = call2.phrase_in
         /\ call2.res.phrase = call2.phrase_in
    /\ ( /\ call2.op = "from_phrase"
         /\ call2.res.kind = "Ok"
         /\ call2.lang = call1.res.lang
         /\ call2.res.entropy = call1.res.entropy )
       => call2.phrase_in = call1.res.phrase

\* from_phrase accepted a text that is not the phrase of the KeyPhrase held, and
\* from_entropy gave that text back.
C14_Witness ==
    /\ call3 # NoCall
    /\ call3.res.kind = "Ok"
    /\ call2.phrase_in # call1.res.phrase
    /\ call2.res.entropy # call1.res.entropy
    /\ call3.res.phrase = call2.phrase_in
    /\ Len(call3.res.entropy) \in ValidEntropyLens

====
